---- MODULE Spec2Model ----
(***************************************************************************)
(* tflap: a terminal Flappy-Bird.  The model follows src/src/main.rs:      *)
(* main() sets the terminal up, builds a Game, runs run_game() and         *)
(* restores the terminal.  run_game() is a loop of draw, drain the         *)
(* pending key events, maybe one Game::update(), sleep.                    *)
(*                                                                         *)
(* f32 values (Bird.y, Bird.velocity) are modelled exactly: a value v is   *)
(* the integer v * 2^25.  Every value the program computes is a sum of     *)
(* multiples of 2^-25 (GRAVITY = 10066330 * 2^-25 is the f32 nearest to    *)
(* 0.3), so it is such an integer, and f32 addition is integer addition    *)
(* followed by rounding to 24 significant bits, ties to even.              *)
(***************************************************************************)
EXTENDS Integers, Naturals, Sequences, FiniteSets, TLC

(* ------------------------------ bounds --------------------------------- *)
\* game.update() is called at most MaxTicks times in a behaviour
MaxTicks == 9
\* a stored high score file holds a number up to MaxStored
MaxStored == 1
\* gap ranges are examined for terminal heights up to MaxHeight
MaxHeight == 40

(* ----------------------------- constants ------------------------------- *)
BIRD_X == 10
\* 0.3f32 = 0x3e99999a = 10066330 * 2^-25
GRAVITY == 10066330
\* -1.5f32, in units of 2^-25
JUMP_VELOCITY == -50331648
PIPE_WIDTH == 6
PIPE_GAP == 8
PIPE_SPEED == 1
\* TICK_RATE (line 21) and the sleep of line 459, in ms
TICK_RATE_MS == 50
SLEEP_MS == 5
\* initial pipes: for i in 0..4, x = width/2 + i*40; spawn_pipe: last.x + 40
PIPE_SPACING == 40
INITIAL_PIPES == 4
\* max_gap_y = height.saturating_sub(PIPE_GAP + 3)
GAP_MARGIN == 3
\* update(): last_pipe.x < width - 20
SPAWN_MARGIN == 20
\* draw(): msg_x = width / 2 - 12
MSG_HALF_WIDTH == 12
U16_MAX == 65535

(* ------------------------------- f32 ----------------------------------- *)
\* one unit of the fixed-point representation: 1.0f32 = 2^25
F32_ONE == 33554432

Abs(n) == IF n < 0 THEN -n ELSE n

\* spacing of the f32 values around n (in units of 2^-25)
F32Ulp(n) ==
    LET a == Abs(n) IN
    IF a < 16777216 THEN 1
    ELSE IF a < 33554432 THEN 2
    ELSE IF a < 67108864 THEN 4
    ELSE IF a < 134217728 THEN 8
    ELSE IF a < 268435456 THEN 16
    ELSE IF a < 536870912 THEN 32
    ELSE IF a < 1073741824 THEN 64
    ELSE 128

\* round to nearest f32, ties to even
F32Round(n) ==
    LET q == F32Ulp(n)
        r == n % q
        down == n - r
    IN  IF 2 * r < q THEN down
        ELSE IF 2 * r > q THEN down + q
        ELSE IF (down \div q) % 2 = 0 THEN down ELSE down + q

\* f32 + f32
F32Add(a, b) == F32Round(a + b)

\* (n: u16) as f32, exact for the sizes modelled
F32FromInt(n) == n * F32_ONE

\* (v: f32) as u16: truncates toward zero and saturates
F32AsU16(v) ==
    IF v < 0 THEN 0
    ELSE IF v \div F32_ONE > U16_MAX THEN U16_MAX
    ELSE v \div F32_ONE

\* u16::saturating_sub
saturating_sub(a, b) == IF a >= b THEN a - b ELSE 0

(* ------------------------------- Bird ---------------------------------- *)
Bird_new(y) == [y |-> y, velocity |-> 0]

\* faulty variant: the impulse is added to the velocity
Bird_jump_additive(b) == [b EXCEPT !.velocity = F32Add(b.velocity, JUMP_VELOCITY)]

Bird_jump(b) == [b EXCEPT !.velocity = JUMP_VELOCITY]

\* faulty variant: the position is advanced by the old velocity
Bird_update_position_first(b) ==
    [y |-> F32Add(b.y, b.velocity), velocity |-> F32Add(b.velocity, GRAVITY)]

Bird_update(b) ==
    LET v == F32Add(b.velocity, GRAVITY)
    IN  [y |-> F32Add(b.y, v), velocity |-> v]

\* faulty variant: the velocity survives the reset
Bird_reset_keeps_velocity(b, y) == [b EXCEPT !.y = y]

Bird_reset(b, y) == [y |-> y, velocity |-> 0]

(* ------------------------------- Pipe ---------------------------------- *)
Pipe_new(x, gap_y) == [x |-> x, gap_y |-> gap_y, passed |-> FALSE]

Pipe_update(p) == [p EXCEPT !.x = p.x - PIPE_SPEED]

\* faulty variant: a pipe whose right edge is at column 0 is kept
is_offscreen_strict(p) == p.x + PIPE_WIDTH < 0

is_offscreen(p) == p.x + PIPE_WIDTH <= 0

\* faulty variant: the row just below the gap counts as inside it
collides_with_open_below(p, bird_x, bird_y) ==
    /\ bird_x + 2 > p.x
    /\ bird_x < p.x + PIPE_WIDTH
    /\ (bird_y < p.gap_y \/ bird_y > p.gap_y + PIPE_GAP)

collides_with(p, bird_x, bird_y) ==
    /\ bird_x + 2 > p.x
    /\ bird_x < p.x + PIPE_WIDTH
    /\ (bird_y < p.gap_y \/ bird_y >= p.gap_y + PIPE_GAP)

has_bird_passed(p, bird_x) == bird_x > p.x + PIPE_WIDTH

(* ---------------------------- persistence ------------------------------ *)
\* The high score file $HOME/.tflap_highscore: NoFile when absent, else its
\* text, a sequence of one-character strings.
NoFile == <<"<absent>">>

DigitChars == <<"0", "1", "2", "3", "4", "5", "6", "7", "8", "9">>

IsDigit(c) == \E d \in 1..10 : DigitChars[d] = c

DigitValue(c) == (CHOOSE d \in 1..10 : DigitChars[d] = c) - 1

\* char::is_whitespace, for the characters modelled
IsWhitespace(c) == c \in {" ", "\n"}

\* u32::to_string: decimal digits, no sign, no leading zero
RECURSIVE to_string(_)
to_string(n) ==
    IF n < 10 THEN <<DigitChars[n + 1]>>
    ELSE Append(to_string(n \div 10), DigitChars[(n % 10) + 1])

\* str::trim: drops leading and trailing whitespace
RECURSIVE trim(_)
trim(s) ==
    IF s = <<>> THEN s
    ELSE IF IsWhitespace(Head(s)) THEN trim(Tail(s))
    ELSE IF IsWhitespace(s[Len(s)]) THEN trim(SubSeq(s, 1, Len(s) - 1))
    ELSE s

RECURSIVE DigitsValue(_)
DigitsValue(s) ==
    IF s = <<>> THEN 0
    ELSE 10 * DigitsValue(SubSeq(s, 1, Len(s) - 1)) + DigitValue(s[Len(s)])

\* str::parse::<u32>: an optional '+', then one or more digits.  Err is -1.
\* (Texts of ten or more digits, which may overflow u32, are not modelled.)
ParseErr == -1

parse_u32(s) ==
    LET digits == IF s # <<>> /\ Head(s) = "+" THEN Tail(s) ELSE s
    IN  IF digits # <<>> /\ \A i \in 1..Len(digits) : IsDigit(digits[i])
        THEN DigitsValue(digits)
        ELSE ParseErr

\* get_highscore_path() is Some iff HOME is set; fs::read_to_string fails on
\* an absent file or when read_ok is false (unreadable, not UTF-8)
load_highscore(home_set, f, read_ok) ==
    IF home_set /\ f # NoFile /\ read_ok
    THEN LET r == parse_u32(trim(f)) IN IF r = ParseErr THEN 0 ELSE r
    ELSE 0

\* The files fs::write(path, score.to_string()) can leave behind: the new
\* text when it succeeds; when it fails, the old file (it could not be
\* opened) or an empty one (truncated, then the write failed).  Nothing
\* is written when HOME is unset.
save_highscore(home_set, f, score, write_ok) ==
    IF ~home_set THEN {f}
    ELSE IF write_ok THEN {to_string(score)}
    ELSE {f, <<>>}

(* ------------------------------- rand ---------------------------------- *)
\* rng.gen_range(lo..=hi): some value of the range; it panics ("cannot
\* sample empty range") when lo > hi
PANIC == -1

gen_range(lo, hi) == IF lo <= hi THEN lo..hi ELSE {PANIC}

min_gap_y == 3

\* faulty variant: the margin below the gap is forgotten
max_gap_y_no_margin(height) == saturating_sub(height, PIPE_GAP)

max_gap_y(height) == saturating_sub(height, PIPE_GAP + GAP_MARGIN)

\* the draws of one `rng.gen_range(min_gap_y..=max_gap_y)`
GapDraws(height) == gen_range(min_gap_y, max_gap_y(height))

(* ------------------------------- Game ---------------------------------- *)
\* the four pipes Game::new and Game::reset push: x = width/2 + i*40
InitialPipes(width, gaps) ==
    [i \in 1..INITIAL_PIPES |->
        Pipe_new(width \div 2 + (i - 1) * PIPE_SPACING, gaps[i])]

\* Game::new, given the loaded high score and the four gap draws
new(width, height, stored, gaps) ==
    [bird          |-> Bird_new(F32FromInt(height \div 2)),
     pipes         |-> InitialPipes(width, gaps),
     score         |-> 0,
     high_score    |-> stored,
     is_new_record |-> FALSE,
     state         |-> "Playing",
     width         |-> width,
     height        |-> height]

\* faulty variant: a new pipe always starts at the right edge
spawn_pipe_at_edge(g, gap) ==
    [g EXCEPT !.pipes = Append(g.pipes, Pipe_new(g.width, gap))]

\* Game::spawn_pipe with the gap drawn
spawn_pipe(g, gap) ==
    LET new_x == IF Len(g.pipes) > 0
                 THEN g.pipes[Len(g.pipes)].x + PIPE_SPACING
                 ELSE g.width
    IN  [g EXCEPT !.pipes = Append(g.pipes, Pipe_new(new_x, gap))]

\* faulty variant: a score equal to the high score is a record too
check_and_save_highscore_on_tie(g) ==
    IF g.score >= g.high_score
    THEN [game |-> [g EXCEPT !.high_score = g.score, !.is_new_record = TRUE],
          save |-> TRUE]
    ELSE [game |-> g, save |-> FALSE]

\* Game::check_and_save_highscore: the game afterwards, and whether
\* save_highscore(high_score) was called
check_and_save_highscore(g) ==
    IF g.score > g.high_score
    THEN [game |-> [g EXCEPT !.high_score = g.score, !.is_new_record = TRUE],
          save |-> TRUE]
    ELSE [game |-> g, save |-> FALSE]

\* faulty variant: only the bottom of the screen is a boundary
hits_boundary_bottom_only(bird, height) == F32AsU16(bird.y) >= height

\* update(), line 177: the boundary test on the integrated bird
hits_boundary(bird, height) == bird.y < 0 \/ F32AsU16(bird.y) >= height

\* faulty variant: the passed flag is never set, so a pipe behind the bird
\* scores in every tick
move_and_score_unflagged(pipe) ==
    LET moved == Pipe_update(pipe)
    IN  IF ~moved.passed /\ has_bird_passed(moved, BIRD_X)
        THEN [pipe |-> moved, gained |-> 1]
        ELSE [pipe |-> moved, gained |-> 0]

\* update(), lines 186-192, the body of the loop for one pipe: it moves,
\* then the bird may have passed it for the first time, which sets its
\* flag and adds 1 to the score
move_and_score(pipe) ==
    LET moved == Pipe_update(pipe)
    IN  IF ~moved.passed /\ has_bird_passed(moved, BIRD_X)
        THEN [pipe |-> [moved EXCEPT !.passed = TRUE], gained |-> 1]
        ELSE [pipe |-> moved, gained |-> 0]

\* update(), lines 185-193: the loop over the pipes, from pipe i on
RECURSIVE score_gained(_, _)
score_gained(pipes, i) ==
    IF i > Len(pipes) THEN 0
    ELSE move_and_score(pipes[i]).gained + score_gained(pipes, i + 1)

\* update(), line 205: pipes.retain(|pipe| !pipe.is_offscreen())
retain_onscreen(pipes) == SelectSeq(pipes, LAMBDA p : ~is_offscreen(p))

\* faulty variant: a rightmost pipe exactly 20 columns from the right edge
\* already lets the next one spawn
wants_spawn_inclusive(pipes, width) ==
    IF Len(pipes) > 0
    THEN pipes[Len(pipes)].x <= width - SPAWN_MARGIN
    ELSE TRUE

\* update(), lines 208-219: whether a pipe is spawned after the cull
wants_spawn(pipes, width) ==
    IF Len(pipes) > 0
    THEN pipes[Len(pipes)].x < width - SPAWN_MARGIN
    ELSE TRUE

\* Game::update from line 174 on (the state is Playing), with the gap a
\* spawn would draw: the game afterwards, whether save_highscore was called
\* and whether gen_range panicked
update_playing(g, gap) ==
    LET bird == Bird_update(g.bird) IN
    IF hits_boundary(bird, g.height)
    THEN LET c == check_and_save_highscore(
                      [g EXCEPT !.bird = bird, !.state = "GameOver"])
         IN  [game |-> c.game, save |-> c.save, panic |-> FALSE]
    ELSE
      LET bird_y == F32AsU16(bird.y)
          pipes  == [i \in DOMAIN g.pipes |-> move_and_score(g.pipes[i]).pipe]
          g1     == [g EXCEPT !.bird = bird, !.pipes = pipes,
                       !.score = g.score + score_gained(g.pipes, 1)]
      IN
      IF \E i \in DOMAIN pipes : collides_with(pipes[i], BIRD_X, bird_y)
      THEN LET c == check_and_save_highscore([g1 EXCEPT !.state = "GameOver"])
           IN  [game |-> c.game, save |-> c.save, panic |-> FALSE]
      ELSE
        LET g2 == [g1 EXCEPT !.pipes = retain_onscreen(pipes)] IN
        IF ~wants_spawn(g2.pipes, g2.width)
        THEN [game |-> g2, save |-> FALSE, panic |-> FALSE]
        ELSE IF gap = PANIC
        THEN [game |-> g2, save |-> FALSE, panic |-> TRUE]
        ELSE IF Len(g2.pipes) > 0
        THEN [game |-> spawn_pipe(g2, gap), save |-> FALSE, panic |-> FALSE]
        ELSE [game |-> [g2 EXCEPT !.pipes =
                            Append(g2.pipes, Pipe_new(g2.width, gap))],
              save |-> FALSE, panic |-> FALSE]

\* faulty variant: the early return of lines 170-172 is missing
update_unguarded(g, gap) == update_playing(g, gap)

\* faulty variant: the guard of lines 170-172 is inverted
update_inverted_guard(g, gap) ==
    IF g.state = "Playing"
    THEN [game |-> g, save |-> FALSE, panic |-> FALSE]
    ELSE update_playing(g, gap)

\* Game::update: nothing happens unless the state is Playing
update(g, gap) ==
    IF g.state # "Playing"
    THEN [game |-> g, save |-> FALSE, panic |-> FALSE]
    ELSE update_playing(g, gap)

\* Game::jump
jump(g) ==
    IF g.state = "Playing" THEN [g EXCEPT !.bird = Bird_jump(g.bird)] ELSE g

\* faulty variant: the restart also forgets the high score
reset_forgets_high_score(g, gaps) ==
    [g EXCEPT !.bird = Bird_reset(g.bird, F32FromInt(g.height \div 2)),
              !.pipes = InitialPipes(g.width, gaps),
              !.score = 0,
              !.high_score = 0,
              !.is_new_record = FALSE,
              !.state = "Playing"]

\* faulty variant: is_new_record survives the reset
reset_keeps_record(g, gaps) ==
    [g EXCEPT !.bird = Bird_reset(g.bird, F32FromInt(g.height \div 2)),
              !.pipes = InitialPipes(g.width, gaps),
              !.score = 0,
              !.state = "Playing"]

\* Game::reset with the four gap draws
reset(g, gaps) ==
    [g EXCEPT !.bird = Bird_reset(g.bird, F32FromInt(g.height \div 2)),
              !.pipes = InitialPipes(g.width, gaps),
              !.score = 0,
              !.is_new_record = FALSE,
              !.state = "Playing"]

(* ------------------------------ input ---------------------------------- *)
KeyCodes == {"c", "C", " ", "r", "R", "q", "Q", "Esc", "x"}

\* what event::read() returns: a key with its CONTROL modifier, or an
\* event that is no key (resize, mouse, focus)
Events == [code : KeyCodes, ctrl : BOOLEAN] \cup {[code |-> "none", ctrl |-> FALSE]}

\* run_game(), lines 428-448: the arm of the match a key takes
key_command(e) ==
    IF e.code = "none" THEN "ignore"
    ELSE IF e.code \in {"c", "C"} /\ e.ctrl THEN "quit"
    ELSE IF e.code = " " THEN "jump"
    ELSE IF e.code \in {"r", "R"} THEN "restart"
    ELSE IF e.code \in {"q", "Q", "Esc"} THEN "quit"
    ELSE "ignore"

\* faulty variant: restart is forwarded whatever the state
dispatch_unguarded(cmd, state) ==
    IF cmd = "quit" THEN "quit"
    ELSE IF cmd = "jump" /\ state = "Playing" THEN "jump"
    ELSE IF cmd = "restart" THEN "reset"
    ELSE "ignored_" \o cmd

\* run_game(), lines 428-448: what is done with a command in a game state:
\* jump is forwarded only while Playing, restart only when GameOver
dispatch(cmd, state) ==
    IF cmd = "quit" THEN "quit"
    ELSE IF cmd = "jump" /\ state = "Playing" THEN "jump"
    ELSE IF cmd = "restart" /\ state = "GameOver" THEN "reset"
    ELSE "ignored_" \o cmd

(* ------------------------------ state ---------------------------------- *)
\* the sizes <<width, height>> terminal::size() can report
TermSizes == {<<2, 14>>, <<24, 13>>, <<24, 14>>, <<282, 14>>}

\* the high score files the process can start with: none, one that does
\* not parse, and a stored score with white space around it
InitialFiles ==
    {NoFile, <<"x">>}
        \cup {<<" ">> \o to_string(n) \o <<"\n">> : n \in 1..MaxStored}

VARIABLES
    loc,     \* where main()/run_game() stands
    game,    \* the Game, NoGame before Game::new
    term,    \* the terminal: raw mode, alternate screen, cursor hidden
    home,    \* whether HOME is set
    file,    \* the high score file
    result,  \* what run_game() returned: "none", "ok", "err"
    ticks,   \* how many times game.update() was called
    last,    \* the last Game operation: its name, the game before it, the
             \* outcome of the write it made
    pending, \* the events that arrived and were not read yet
    elapsed, \* last_tick.elapsed(), in ms, as far as it matters
    iter     \* what the current loop iteration did so far

\* the event queue and the clock, which only the specification of the
\* loop's timing follows
timing == <<pending, elapsed, iter>>

vars == <<loc, game, term, home, file, result, ticks, last, timing>>

NoGame ==
    [bird          |-> Bird_new(0),
     pipes         |-> <<>>,
     score         |-> 0,
     high_score    |-> 0,
     is_new_record |-> FALSE,
     state         |-> "None",
     width         |-> 0,
     height        |-> 0]

NoOp == [op |-> "none", pre |-> NoGame, write |-> "none"]

\* the start of a loop iteration: nothing drawn, read or updated yet
NewIter == [draws |-> 0, reads |-> 0, updates |-> 0]

Op(name, pre) == [op |-> name, pre |-> pre, write |-> "none"]

Init ==
    /\ loc = "raw"
    /\ game = NoGame
    /\ term = [raw |-> FALSE, alt |-> FALSE, hidden |-> FALSE]
    /\ home \in BOOLEAN
    /\ file \in IF home THEN InitialFiles ELSE {NoFile}
    /\ result = "none"
    /\ ticks = 0
    /\ last = NoOp
    /\ pending = <<>>
    /\ elapsed = 0
    /\ iter = NewIter

(* ------------------------------- main ---------------------------------- *)
\* line 402: terminal::enable_raw_mode()?
EnableRawMode ==
    /\ loc = "raw"
    /\ \E ok \in BOOLEAN :
          IF ok
          THEN /\ term' = [term EXCEPT !.raw = TRUE]
               /\ loc' = "enter"
          ELSE /\ term' = term
               /\ loc' = "exit_err"
    /\ UNCHANGED <<game, home, file, result, ticks, last, timing>>

\* line 403: execute!(stdout, EnterAlternateScreen, Hide)?  The two commands
\* run in order and the first failure returns.
EnterScreen ==
    /\ loc = "enter"
    /\ \E done \in 0..2 :
          /\ term' = [term EXCEPT !.alt = (done >= 1), !.hidden = (done >= 2)]
          /\ loc' = IF done = 2 THEN "size" ELSE "exit_err"
    /\ UNCHANGED <<game, home, file, result, ticks, last, timing>>

\* lines 405-407: terminal::size()?, then Game::new(width, height), which
\* loads the high score and draws four gaps
NewGame ==
    /\ loc = "size"
    /\ \/ /\ loc' = "exit_err"
          /\ UNCHANGED <<game, last>>
       \/ \E size \in TermSizes, read_ok \in BOOLEAN :
          LET width == size[1]
              height == size[2]
          IN
          \E gaps \in [1..INITIAL_PIPES -> GapDraws(height)] :
             IF \E i \in 1..INITIAL_PIPES : gaps[i] = PANIC
             THEN /\ loc' = "panic_rand"
                  /\ UNCHANGED <<game, last>>
             ELSE /\ game' = new(width, height,
                                 load_highscore(home, file, read_ok), gaps)
                  /\ last' = Op("new", game)
                  /\ loc' = "draw"
    /\ UNCHANGED <<term, home, file, result, ticks, timing>>

(* ----------------------------- run_game -------------------------------- *)
\* Game::draw, line 308: `self.width / 2 - 12` underflows u16 on the game
\* over screen of a narrow terminal: a panic with overflow checks, a
\* wrapped column without
draw_underflows(g) == g.state = "GameOver" /\ g.width \div 2 < MSG_HALF_WIDTH

\* line 420: game.draw(stdout)? at the top of the loop
render ==
    /\ loc = "draw"
    /\ \/ /\ loc' = "poll"
          /\ result' = result
       \/ /\ loc' = "cleanup"
          /\ result' = "err"
       \/ /\ draw_underflows(game)
          /\ loc' = "panic_overflow"
          /\ result' = result
    /\ last' = NoOp
    /\ UNCHANGED <<game, term, home, file, ticks>>

Draw == render /\ UNCHANGED timing

\* lines 425-449: the match on the event e that event::read()? returned.
\* last.op names what was done with it: "quit", "jump", "reset", or
\* "ignored" with the command that was not forwarded.
handle(e) ==
    /\ loc = "poll"
    /\ LET cmd == key_command(e)
           do  == dispatch(cmd, game.state)
       IN
       IF do = "quit"
       THEN /\ loc' = "cleanup"
            /\ result' = "ok"
            /\ last' = Op("quit", game)
            /\ game' = game
       ELSE IF do = "jump"
       THEN /\ game' = jump(game)
            /\ last' = Op("jump", game)
            /\ UNCHANGED <<loc, result>>
       ELSE IF do = "reset"
       THEN \E gaps \in [1..INITIAL_PIPES -> GapDraws(game.height)] :
               IF \E i \in 1..INITIAL_PIPES : gaps[i] = PANIC
               THEN /\ loc' = "panic_rand"
                    /\ last' = NoOp
                    /\ UNCHANGED <<game, result>>
               ELSE /\ game' = reset(game, gaps)
                    /\ last' = Op("reset", game)
                    /\ UNCHANGED <<loc, result>>
       ELSE /\ last' = Op(do, game)
            /\ UNCHANGED <<loc, game, result>>
    /\ UNCHANGED <<term, home, file, ticks>>

\* lines 423-450: event::poll(0)? reported an event and event::read()?
\* returned it; here an event is read the moment it arrives
HandleEvent ==
    /\ \E e \in Events : handle(e)
    /\ UNCHANGED timing

\* event::poll(0)? or event::read()? failed
InputError ==
    /\ loc = "poll"
    /\ loc' = "cleanup"
    /\ result' = "err"
    /\ last' = NoOp
    /\ UNCHANGED <<game, term, home, file, ticks, timing>>

\* lines 453-456, the tick is due: game.update() with the gap a spawn
\* would draw and the outcome of the write a commit makes; the call is
\* counted as number t; the loop goes on at next
tick_due(t, next) ==
    /\ loc = "poll"
    /\ ticks' = t
    /\ \E gap \in GapDraws(game.height), write_ok \in BOOLEAN :
          LET u == update(game, gap) IN
          /\ game' = u.game
          /\ loc' = IF u.panic THEN "panic_rand" ELSE next
          /\ file' \in IF u.save
                       THEN save_highscore(home, file,
                                           u.game.high_score, write_ok)
                       ELSE {file}
          /\ last' = [op |-> "update", pre |-> game,
                      write |-> IF ~u.save THEN "none"
                                ELSE IF ~home THEN "nohome"
                                ELSE IF write_ok THEN "ok"
                                ELSE "failed"]
    /\ UNCHANGED <<term, home, result>>

\* lines 453-459, the tick is not due: the loop goes on at next
tick_not_due(next) ==
    /\ loc = "poll"
    /\ loc' = next
    /\ last' = NoOp
    /\ UNCHANGED <<game, file, ticks, term, home, result>>

\* lines 452-459: no event is pending; game.update() is called if
\* TICK_RATE has elapsed since the last tick, which is left open here;
\* then the loop sleeps
Tick ==
    /\ \/ tick_not_due("draw")
       \/ ticks < MaxTicks /\ tick_due(ticks + 1, "draw")
    /\ UNCHANGED timing

(* ---------------------------- main, cleanup ---------------------------- *)
\* line 412: execute!(stdout, Show, LeaveAlternateScreen)?
RestoreScreen ==
    /\ loc = "cleanup"
    /\ \E done \in 0..2 :
          /\ term' = [term EXCEPT !.hidden = IF done >= 1 THEN FALSE ELSE @,
                                  !.alt = IF done >= 2 THEN FALSE ELSE @]
          /\ loc' = IF done = 2 THEN "restore_raw" ELSE "exit_err"
    /\ last' = NoOp
    /\ UNCHANGED <<game, home, file, result, ticks, timing>>

\* lines 413-415: terminal::disable_raw_mode()?; result
DisableRawMode ==
    /\ loc = "restore_raw"
    /\ \E ok \in BOOLEAN :
          IF ok
          THEN /\ term' = [term EXCEPT !.raw = FALSE]
               /\ loc' = IF result = "ok" THEN "exit_ok" ELSE "exit_err"
          ELSE /\ term' = term
               /\ loc' = "exit_err"
    /\ last' = NoOp
    /\ UNCHANGED <<game, home, file, result, ticks, timing>>

Next ==
    \/ EnableRawMode
    \/ EnterScreen
    \/ NewGame
    \/ Draw
    \/ HandleEvent
    \/ InputError
    \/ Tick
    \/ RestoreScreen
    \/ DisableRawMode

Spec == Init /\ [][Next]_vars

(* ----------------------- a player who hovers --------------------------- *)
\* the runs of a player who presses space exactly when the bird is falling
\* at or below the middle row, and never otherwise: runs of the program
\* that last long enough for the last initial pipe to leave the screen
MaxHoverTicks == 130

Space == [code |-> " ", ctrl |-> FALSE]

hovers(g) ==
    /\ g.state = "Playing"
    /\ g.bird.velocity > 0
    /\ g.bird.y >= F32FromInt(g.height \div 2)

\* lines 431-435 with the space key of this player
HoverJump ==
    /\ hovers(game)
    /\ handle(Space)
    /\ UNCHANGED timing

\* lines 453-456 once this player's key was read
HoverTick ==
    /\ ~hovers(game)
    /\ ticks < MaxHoverTicks
    /\ tick_due(ticks + 1, "draw")
    /\ UNCHANGED timing

NextHover ==
    \/ EnableRawMode
    \/ EnterScreen
    \/ NewGame
    \/ Draw
    \/ HoverJump
    \/ HoverTick
    \/ InputError
    \/ RestoreScreen
    \/ DisableRawMode

SpecHover == Init /\ [][NextHover]_vars

(* ------------------- the loop with its queue and clock ----------------- *)
\* run_game on a 24 x 14 terminal without HOME, with the events queued in
\* the order they arrive and the time since last_tick followed in ms
MaxPending == 2

MaxLoopTicks == 3

\* the reads of one iteration are counted up to MaxReads
MaxReads == 2

\* the keys that arrive: one per command
LoopEvents == {[code |-> c, ctrl |-> FALSE] : c \in {" ", "r", "q", "x"}}

\* line 459: thread::sleep(5 ms) returns after 5 ms or later; the time the
\* rest of the iteration takes is counted with it
SleepTimes == {SLEEP_MS, 4 * SLEEP_MS, TICK_RATE_MS}

LoopSize == <<24, 14>>

InitLoop ==
    /\ loc = "draw"
    /\ game = new(LoopSize[1], LoopSize[2], 0,
                  [i \in 1..INITIAL_PIPES |-> min_gap_y])
    /\ term = [raw |-> TRUE, alt |-> TRUE, hidden |-> TRUE]
    /\ home = FALSE
    /\ file = NoFile
    /\ result = "none"
    /\ ticks = 0
    /\ last = Op("new", NoGame)
    /\ pending = <<>>
    /\ elapsed = 0
    /\ iter = NewIter

\* a key is pressed while the loop runs
Arrive ==
    /\ loc \in {"draw", "poll", "sleep"}
    /\ Len(pending) < MaxPending
    /\ \E e \in LoopEvents : pending' = Append(pending, e)
    /\ UNCHANGED <<loc, game, term, home, file, result, ticks, last,
                   elapsed, iter>>

\* line 420
LoopDraw ==
    /\ render
    /\ iter' = [iter EXCEPT !.draws = @ + 1]
    /\ UNCHANGED <<pending, elapsed>>

\* faulty variant: the newest event is read first
read_newest(queue) ==
    [event |-> queue[Len(queue)], rest |-> SubSeq(queue, 1, Len(queue) - 1)]

\* event::read(): the oldest pending event, which leaves the queue
read(queue) == [event |-> Head(queue), rest |-> Tail(queue)]

\* lines 423-450, one turn of the while loop: event::poll(0)? is true and
\* the event read is handled
ReadEvent ==
    /\ pending # <<>>
    /\ handle(read(pending).event)
    /\ pending' = read(pending).rest
    /\ iter' = [iter EXCEPT !.reads = IF @ < MaxReads THEN @ + 1 ELSE @]
    /\ UNCHANGED elapsed

\* line 453: last_tick.elapsed() >= TICK_RATE
due(ms) == ms >= TICK_RATE_MS

\* lines 423 and 453-456: event::poll(0)? is false, so the while loop
\* ends; game.update() is called if the tick is due, and last_tick is set
LoopTick ==
    /\ pending = <<>>
    /\ IF due(elapsed)
       THEN /\ ticks < MaxLoopTicks
            /\ tick_due(ticks + 1, "sleep")
            /\ elapsed' = 0
            /\ iter' = [iter EXCEPT !.updates = @ + 1]
       ELSE /\ tick_not_due("sleep")
            /\ UNCHANGED <<elapsed, iter>>
    /\ UNCHANGED pending

\* line 459, the end of the iteration; elapsed is followed up to TICK_RATE
Sleep ==
    /\ loc = "sleep"
    /\ loc' = "draw"
    /\ \E ms \in SleepTimes :
          elapsed' = IF elapsed + ms > TICK_RATE_MS THEN TICK_RATE_MS
                     ELSE elapsed + ms
    /\ iter' = NewIter
    /\ last' = NoOp
    /\ UNCHANGED <<game, term, home, file, result, ticks, pending>>

NextLoop ==
    \/ Arrive
    \/ LoopDraw
    \/ ReadEvent
    \/ InputError
    \/ LoopTick
    \/ Sleep
    \/ RestoreScreen
    \/ DisableRawMode

SpecLoop == InitLoop /\ [][NextLoop]_vars

(* ------------------- a player who stops jumping ------------------------ *)
\* the runs in which the space key is no longer pressed once update was
\* called MaxPlayTicks times, while the loop keeps running and the tick
\* keeps coming due; ticks counts the calls up to MaxPlayTicks
MaxPlayTicks == 3

\* lines 423-450 for this player
FallEvent ==
    /\ \E e \in Events :
          /\ key_command(e) = "jump" => ticks < MaxPlayTicks
          /\ handle(e)
    /\ UNCHANGED timing

\* lines 453-456, the tick is due
FallTick ==
    /\ tick_due(IF ticks < MaxPlayTicks THEN ticks + 1 ELSE ticks, "draw")
    /\ UNCHANGED timing

\* lines 453-459, the tick is not due
FallIdle ==
    /\ tick_not_due("draw")
    /\ UNCHANGED timing

NextFall ==
    \/ EnableRawMode
    \/ EnterScreen
    \/ NewGame
    \/ Draw
    \/ FallEvent
    \/ InputError
    \/ FallTick
    \/ FallIdle
    \/ RestoreScreen
    \/ DisableRawMode

\* ENABLED <<FallTick>>_vars: tick_due has no other guard, and its step
\* leaves "poll"
TickEnabled == loc = "poll"

\* the loop does not stop before a draw, and the tick comes due again and
\* again (the clock advances and the sleep returns): weak fairness of Draw
\* and strong fairness of FallTick, SF_vars(FallTick), written out with
\* the enabling condition above
SpecFall ==
    /\ Init
    /\ [][NextFall]_vars
    /\ WF_vars(Draw)
    /\ (<>[]~TickEnabled) \/ ([]<><<FallTick>>_vars)

(* ------------------------------ claims --------------------------------- *)
\* C1: the game state changes only Playing -> GameOver inside a tick and
\* GameOver -> Playing by a restart command (after Game::new made it
\* Playing); a quit command ends the loop with Ok from either state; a jump
\* or a tick never leaves GameOver; a restart command received while
\* Playing changes nothing.
C1_StateMachine ==
    [][/\ game'.state # game.state =>
            \/ /\ game.state = "None" /\ game'.state = "Playing"
               /\ last'.op = "new"
            \/ /\ game.state = "Playing" /\ game'.state = "GameOver"
               /\ last'.op = "update"
            \/ /\ game.state = "GameOver" /\ game'.state = "Playing"
               /\ last'.op = "reset"
       /\ last'.op = "reset" => game.state = "GameOver"
       /\ last'.op = "quit" =>
            /\ loc' = "cleanup" /\ result' = "ok" /\ game' = game
       /\ (game.state = "GameOver" /\ last'.op \in {"update", "ignored_jump"}) =>
            game'.state = "GameOver"
       /\ last'.op = "jump" => game.state = "Playing"
       /\ last'.op = "ignored_jump" => game.state = "GameOver"
       /\ last'.op = "ignored_restart" =>
            /\ game.state = "Playing" /\ game' = game /\ loc' = loc
       \* the keys behind the commands: q, Q, Esc and Ctrl+C quit; r and R
       \* restart; space jumps
       /\ loc = "raw" =>
            \A e \in Events :
               /\ key_command(e) = "quit" <=>
                     \/ e.code \in {"q", "Q", "Esc"}
                     \/ e.code \in {"c", "C"} /\ e.ctrl
               /\ key_command(e) = "restart" <=> e.code \in {"r", "R"}
               /\ key_command(e) = "jump" <=> e.code = " "
      ]_vars

\* C1 witness: a game that ended in a tick was restarted by a restart command
C1_Witness ==
    /\ last.op = "reset"
    /\ last.pre.state = "GameOver"
    /\ game.state = "Playing"
    /\ ticks > 0

\* the last step was a call of game.update()
Ticked == last.op = "update"

\* C2: once the state is GameOver, update is a pure no-op: the state, the
\* bird, every pipe, the score, high_score and is_new_record are unchanged
\* and nothing is saved, tick after tick, until reset.
C2_GameOverTickIsNoOp ==
    (Ticked /\ last.pre.state = "GameOver") =>
        /\ game = last.pre
        /\ last.write = "none"

\* C2 witness: update was called on a game that was already over, whose
\* bird and pipes a live tick would have moved
C2_Witness ==
    /\ Ticked
    /\ last.pre.state = "GameOver"
    /\ Len(game.pipes) > 0
    /\ game.score > 0

\* the pipe of the game now that pipe i of the game before the tick became
\* (it moved left by PIPE_SPEED), 0 when it is gone
Successor(i) ==
    IF \E j \in DOMAIN game.pipes : game.pipes[j].x = last.pre.pipes[i].x - PIPE_SPEED
    THEN CHOOSE j \in DOMAIN game.pipes :
            game.pipes[j].x = last.pre.pipes[i].x - PIPE_SPEED
    ELSE 0

\* the pipes whose passed flag the last tick flipped from false to true
Flipped ==
    {i \in DOMAIN last.pre.pipes :
        /\ ~last.pre.pipes[i].passed
        /\ Successor(i) # 0
        /\ game.pipes[Successor(i)].passed}

\* the last tick moved the pipes (it was not ended by the boundary check)
PipesMoved ==
    /\ Ticked
    /\ last.pre.state = "Playing"
    /\ game.bird.y >= 0
    /\ game.bird.y < F32FromInt(game.height)

\* C3: in a tick the score grows by 1 for each pipe whose passed flag flips
\* from false to true, which happens exactly when the pipe was not passed
\* and, after its decrement, BIRD_X > x + PIPE_WIDTH; a passed flag never
\* goes back, so no pipe is counted twice; and no other operation of a
\* Playing game changes the score.
C3_ScoreOncePerPipe ==
    /\ (Ticked /\ last.pre.state = "Playing") =>
          /\ game.score = last.pre.score + Cardinality(Flipped)
          /\ \A i \in DOMAIN last.pre.pipes :
                /\ i \in Flipped <=>
                      /\ PipesMoved
                      /\ ~last.pre.pipes[i].passed
                      /\ BIRD_X > (last.pre.pipes[i].x - PIPE_SPEED) + PIPE_WIDTH
                /\ (last.pre.pipes[i].passed /\ Successor(i) # 0) =>
                      game.pipes[Successor(i)].passed
    /\ last.op \in {"jump", "quit", "ignored_jump", "ignored_restart",
                    "ignored_ignore"} =>
          game.score = last.pre.score

\* C3 witness: a tick on a pipe that was passed in an earlier tick and is
\* still live: the score, already 1, did not grow again
C3_Witness ==
    /\ PipesMoved
    /\ last.pre.score = 1
    /\ game.score = 1
    /\ \E i \in DOMAIN last.pre.pipes :
          /\ last.pre.pipes[i].passed
          /\ Successor(i) # 0
          /\ BIRD_X > game.pipes[Successor(i)].x + PIPE_WIDTH

\* the bird's row: its vertical position rounded down
Row(bird) == bird.y \div F32_ONE

\* some pipe of the game before the last tick, moved one step left,
\* overlaps the bird's two columns while the row is outside its gap
HitsPipe(row) ==
    \E i \in DOMAIN last.pre.pipes :
        LET x       == last.pre.pipes[i].x - PIPE_SPEED
            gap_top == last.pre.pipes[i].gap_y
        IN  /\ BIRD_X + 2 > x
            /\ BIRD_X < x + PIPE_WIDTH
            /\ ~(gap_top <= row /\ row < gap_top + PIPE_GAP)

\* C4: a tick that survives the boundary check ends the game if and only
\* if some live pipe, at its position after the decrement, has
\* BIRD_X + 2 > x, BIRD_X < x + PIPE_WIDTH and the bird's row outside
\* [gap_top, gap_top + PIPE_GAP).
C4_CollisionIff ==
    PipesMoved => (game.state = "GameOver" <=> HitsPipe(Row(game.bird)))

\* C4 witness: the game ended on a pipe with the bird in the first row
\* below the gap, row gap_top + PIPE_GAP
C4_Witness ==
    /\ PipesMoved
    /\ game.state = "GameOver"
    /\ \E i \in DOMAIN game.pipes :
          /\ BIRD_X + 2 > game.pipes[i].x
          /\ BIRD_X < game.pipes[i].x + PIPE_WIDTH
          /\ Row(game.bird) = game.pipes[i].gap_y + PIPE_GAP

\* C5 (as claimed): no draw of a gap position is given an empty range, so
\* the process never panics in gen_range.
C5_RangeNeverEmpty == loc # "panic_rand"

\* C6: when [3, height - (PIPE_GAP + 3)] is non-empty, every live pipe has
\* 3 <= gap_y and gap_y + PIPE_GAP <= height - 3.
C6_GapWithinMargins ==
    /\ (game.state # "None" /\ 3 <= game.height - (PIPE_GAP + 3)) =>
          \A i \in DOMAIN game.pipes :
              /\ 3 <= game.pipes[i].gap_y
              /\ game.pipes[i].gap_y + PIPE_GAP <= game.height - 3
    \* and, whatever height terminal::size() is about to report, so is
    \* every gap that can be drawn for it
    /\ loc = "size" =>
          \A height \in 0..MaxHeight :
              3 <= height - (PIPE_GAP + 3) =>
                  \A gap_y \in GapDraws(height) :
                      3 <= gap_y /\ gap_y + PIPE_GAP <= height - 3

\* C6 witness: a game that holds a pipe spawned by a tick (a fifth pipe,
\* PIPE_SPACING behind the fourth) next to the four initial ones
C6_Witness ==
    /\ Ticked
    /\ Len(game.pipes) = INITIAL_PIPES + 1
    /\ Len(last.pre.pipes) = INITIAL_PIPES
    /\ 3 <= game.height - (PIPE_GAP + 3)

\* the high score a later run of the program would load
Persisted == load_highscore(home, file, TRUE)

\* C7: a tick that ends the game attempts the high-score commit.  If the
\* score then exceeds high_score: high_score becomes the score,
\* is_new_record becomes true, save_highscore is called and, when its
\* write succeeds, the persisted value is the score; when the write fails
\* (or HOME is unset) the two fields are updated all the same and the loop
\* goes on.  Otherwise high_score, is_new_record and the file are unchanged.
C7_CommitOnGameOver ==
    [][(last'.op = "update" /\ game.state = "Playing" /\ game'.state = "GameOver") =>
          IF game'.score > game.high_score
          THEN /\ game'.high_score = game'.score
               /\ game'.is_new_record
               /\ last'.write \in {"ok", "failed", "nohome"}
               /\ last'.write = "ok" => Persisted' = game'.score
               /\ last'.write = "nohome" => file' = file
               /\ loc' = "draw"
          ELSE /\ game'.high_score = game.high_score
               /\ game'.is_new_record = game.is_new_record
               /\ last'.write = "none"
               /\ file' = file
      ]_vars

\* C7 witness: the game ended with score 1 over a stored high score of 0,
\* the write succeeded and the file now holds 1
C7_Witness ==
    /\ Ticked
    /\ last.pre.state = "Playing"
    /\ game.state = "GameOver"
    /\ game.score = 1
    /\ last.pre.high_score = 0
    /\ last.write = "ok"
    /\ Persisted = 1

\* C8 (as claimed): is_new_record is true from the tick in which the score
\* first exceeds the high score the game holds.
C8_LatchedWhenScoreExceeds ==
    (game.state = "Playing" /\ game.score > game.high_score) => game.is_new_record

\* C8 (amended): is_new_record becomes true only in the tick that ends the
\* game, and then exactly when the score exceeds high_score; it stays true
\* until restart, and restart sets it to false.
C8_LatchedAtGameOver ==
    [][/\ (last'.op = "update" /\ game.state = "Playing") =>
            (game'.is_new_record <=>
                (game'.state = "GameOver" /\ game'.score > game.high_score))
       /\ (~game.is_new_record /\ game'.is_new_record) => last'.op = "update"
       /\ (game.is_new_record /\ last'.op # "reset") => game'.is_new_record
       /\ last'.op = "reset" => ~game'.is_new_record
      ]_vars

\* C8 witness: a restart of a game that had ended with a new record
C8_Witness ==
    /\ last.op = "reset"
    /\ last.pre.is_new_record
    /\ ~game.is_new_record

\* what the claim says reset produces from game g, as game r
IsResetOf(r, g) ==
    /\ r.high_score = g.high_score
    /\ r.width = g.width
    /\ r.height = g.height
    /\ r.state = "Playing"
    /\ r.score = 0
    /\ ~r.is_new_record
    /\ r.bird.y = (g.height \div 2) * F32_ONE
    /\ r.bird.velocity = 0
    /\ Len(r.pipes) = 4
    /\ \A i \in 0..3 :
          /\ r.pipes[i + 1].x = g.width \div 2 + 40 * i
          /\ ~r.pipes[i + 1].passed
          /\ r.pipes[i + 1].gap_y \in GapDraws(g.height)
    \* the state Game::new builds, with the high score kept, not reloaded
    /\ r = new(g.width, g.height, g.high_score,
               [i \in 1..4 |-> r.pipes[i].gap_y])

\* C9: reset keeps high_score, width and height and produces the state of
\* initialization: Playing, score 0, is_new_record false, the bird at
\* height/2 with velocity 0, four unpassed pipes at width/2 + 40*i.  It
\* does so when the loop calls it (on a restart command, the game over)
\* and when applied to any other reachable game.
C9_ResetRestoresInitialState ==
    /\ last.op = "reset" => IsResetOf(game, last.pre)
    /\ (game.state # "None" /\ GapDraws(game.height) # {PANIC}) =>
          \A gaps \in [1..INITIAL_PIPES -> GapDraws(game.height)] :
              IsResetOf(reset(game, gaps), game)

\* C9 witness: a restart of a game that had scored, set a record, moved
\* its bird and culled a pipe
C9_Witness ==
    /\ last.op = "reset"
    /\ last.pre.score > 0
    /\ last.pre.is_new_record
    /\ last.pre.bird.velocity # 0
    /\ Len(last.pre.pipes) < INITIAL_PIPES
    /\ game.high_score > 0

\* C10: a tick of a Playing game first integrates the bird, velocity' =
\* velocity + GRAVITY and y' = y + velocity' (f32 additions), and the
\* boundary and collision checks of the tick use y'.  From y = 10,
\* velocity = 0 at height 20 one tick gives velocity 0.3f32, y 10.3f32
\* and no boundary hit.
C10_IntegrateThenCheck ==
    /\ (Ticked /\ last.pre.state = "Playing") =>
          /\ game.bird.velocity = F32Round(last.pre.bird.velocity + GRAVITY)
          /\ game.bird.y = F32Round(last.pre.bird.y + game.bird.velocity)
          /\ game.state = "GameOver" <=>
                \/ game.bird.y < 0
                \/ game.bird.y >= game.height * F32_ONE
                \/ HitsPipe(Row(game.bird))
    /\ loc = "size" =>
          LET b == Bird_update(Bird_new(F32FromInt(10)))
          IN  /\ b.velocity = 10066330
              /\ b.y = 345610656
              /\ ~hits_boundary(b, 20)

\* C10 witness: a tick integrated a bird that was moving upwards after a
\* jump and crossed a row boundary, and the game goes on
C10_Witness ==
    /\ Ticked
    /\ last.pre.state = "Playing"
    /\ game.state = "Playing"
    /\ last.pre.bird.velocity < 0
    /\ Row(game.bird) < Row(last.pre.bird)

\* C11: a tick of a Playing game whose integrated bird has y < 0 or
\* y >= height ends in GameOver, commits the high score and skips the rest
\* of the tick: every pipe (position and passed flag), the number of pipes
\* and the score are as before the tick.  Conversely, when the integrated
\* bird has 0 <= y < height the tick goes on: every pipe is moved, and the
\* game is over only if a moved pipe hits the bird.
C11_BoundaryTickSkipsRest ==
    (Ticked /\ last.pre.state = "Playing") =>
        /\ game.bird = Bird_update(last.pre.bird)
        /\ (game.bird.y < 0 \/ game.bird.y >= F32FromInt(game.height)) =>
              /\ game.state = "GameOver"
              /\ game.pipes = last.pre.pipes
              /\ game.score = last.pre.score
              /\ IF last.pre.score > last.pre.high_score
                 THEN /\ game.high_score = last.pre.score
                      /\ game.is_new_record
                      /\ last.write # "none"
                 ELSE /\ game.high_score = last.pre.high_score
                      /\ game.is_new_record = last.pre.is_new_record
                      /\ last.write = "none"
        /\ (game.bird.y >= 0 /\ game.bird.y < F32FromInt(game.height)) =>
              /\ game.state = "GameOver" =>
                    /\ HitsPipe(Row(game.bird))
                    /\ Len(game.pipes) = Len(last.pre.pipes)
              /\ \A i \in DOMAIN game.pipes :
                    i <= Len(last.pre.pipes) =>
                       \E j \in DOMAIN last.pre.pipes :
                          game.pipes[i].x = last.pre.pipes[j].x - PIPE_SPEED

\* C11 witness: the bird left the screen through the top in a tick that
\* would otherwise have moved a pipe off the screen and culled it
C11_Witness ==
    /\ Ticked
    /\ last.pre.state = "Playing"
    /\ game.bird.y < 0
    /\ game.state = "GameOver"
    /\ \E i \in DOMAIN last.pre.pipes :
          is_offscreen(Pipe_update(last.pre.pipes[i]))

\* C12: a jump of a Playing game sets the bird's velocity to JUMP_VELOCITY
\* whatever it was, so a second jump before the next tick changes nothing
\* more, and leaves the position, the pipes, the score, the state and the
\* high score alone; a jump of a GameOver game changes nothing, both in
\* Game::jump itself and in the loop, which does not forward the key.
C12_JumpSetsVelocityOnly ==
    /\ last.op = "jump" =>
          /\ last.pre.state = "Playing"
          /\ game.bird.velocity = JUMP_VELOCITY
          /\ game = [last.pre EXCEPT !.bird.velocity = game.bird.velocity]
    /\ last.op = "ignored_jump" =>
          /\ last.pre.state = "GameOver"
          /\ game = last.pre
    /\ game.state = "Playing" =>
          /\ jump(game).bird.velocity = JUMP_VELOCITY
          /\ jump(game) = [game EXCEPT !.bird.velocity = JUMP_VELOCITY]
          /\ jump(jump(game)) = jump(game)
    /\ game.state = "GameOver" => jump(game) = game

\* C12 witness: a second jump with no tick in between, on a bird that the
\* first jump already gave the impulse
C12_Witness ==
    /\ last.op = "jump"
    /\ last.pre.bird.velocity = JUMP_VELOCITY
    /\ last.pre.score > 0
    /\ game.bird.y # F32FromInt(game.height \div 2)

\* C13: after a tick that ends in Playing no live pipe has
\* x + PIPE_WIDTH <= 0, and the pipes the tick removed are exactly those
\* whose moved position has x + PIPE_WIDTH <= 0: a pipe moved to x = -3
\* stays, a pipe moved to x = -6 is removed.  In every reachable state,
\* Playing or GameOver, no live pipe has x + PIPE_WIDTH <= 0.
C13_CullExactlyOffscreen ==
    /\ game.state # "None" =>
          \A i \in DOMAIN game.pipes : game.pipes[i].x + PIPE_WIDTH > 0
    /\ (Ticked /\ last.pre.state = "Playing" /\ game.state = "Playing") =>
          \A i \in DOMAIN last.pre.pipes :
             LET x == last.pre.pipes[i].x - PIPE_SPEED
             IN  /\ x + PIPE_WIDTH > 0 <=> Successor(i) # 0
                 /\ x = -3 => Successor(i) # 0
                 /\ x = -6 => Successor(i) = 0

\* C13 witness: a tick that ended in Playing moved the first pipe to
\* x = -6 and removed it, and kept the others
C13_Witness ==
    /\ Ticked
    /\ last.pre.state = "Playing"
    /\ game.state = "Playing"
    /\ last.pre.pipes[1].x - PIPE_SPEED = -6
    /\ Len(game.pipes) = Len(last.pre.pipes) - 1
    /\ game.pipes[1].x = last.pre.pipes[2].x - PIPE_SPEED

\* the pipes the last tick kept: those of the game before it whose moved
\* position is not off the screen
Kept == SelectSeq(last.pre.pipes, LAMBDA p : p.x - PIPE_SPEED + PIPE_WIDTH > 0)

\* C14: in a tick that reaches the spawn step, after the cull: when pipes
\* remain and the rightmost has x < width - 20, exactly one pipe is appended
\* at rightmost.x + 40 with passed = false; when pipes remain and the
\* rightmost has x >= width - 20, none is; when no pipe remains, exactly one
\* is spawned at x = width.  A tick spawns at most one pipe.
C14_SpawnRule ==
    (Ticked /\ last.pre.state = "Playing" /\ game.state = "Playing") =>
        LET n == Len(Kept) IN
        /\ \A i \in 1..n : game.pipes[i].x = Kept[i].x - PIPE_SPEED
        /\ Len(game.pipes) \in {n, n + 1}
        /\ IF n > 0 /\ Kept[n].x - PIPE_SPEED < game.width - 20
           THEN /\ Len(game.pipes) = n + 1
                /\ game.pipes[n + 1].x = Kept[n].x - PIPE_SPEED + 40
                /\ ~game.pipes[n + 1].passed
           ELSE IF n > 0
           THEN Len(game.pipes) = n
           ELSE /\ Len(game.pipes) = 1
                /\ game.pipes[1].x = game.width
                /\ ~game.pipes[1].passed

\* C14 witness: the tick moved the only pipe left off the screen, culled it
\* and spawned one at x = width
C14_Witness ==
    /\ Ticked
    /\ last.pre.state = "Playing"
    /\ game.state = "Playing"
    /\ Len(last.pre.pipes) = 1
    /\ Len(Kept) = 0
    /\ Len(game.pipes) = 1
    /\ game.pipes[1].x = game.width

\* the other two cases of C14 happen as well
C14_SpawnedBehindLast ==
    /\ Ticked /\ last.pre.state = "Playing" /\ game.state = "Playing"
    /\ Len(Kept) > 0
    /\ Len(game.pipes) = Len(Kept) + 1

C14_NothingSpawned ==
    /\ Ticked /\ last.pre.state = "Playing" /\ game.state = "Playing"
    /\ Len(Kept) > 0
    /\ Len(game.pipes) = Len(Kept)
    /\ Kept[Len(Kept)].x - PIPE_SPEED = game.width - 20

\* where main() has returned or the process has panicked
Ended == {"exit_ok", "exit_err", "panic_rand", "panic_overflow"}

\* C15: on every exit path after raw mode was enabled (normal quit, an I/O
\* error inside the game loop, an error during startup) the cursor is shown
\* again, the alternate screen is left and raw mode is disabled before
\* control returns: the process ends only out of the restoration at lines
\* 412-413, and when those commands succeed the terminal is as it was.
C15_RestoredOnEveryExit ==
    [][(term.raw /\ loc \notin Ended /\ loc' \in Ended) =>
          /\ loc \in {"cleanup", "restore_raw"}
          /\ loc' = "exit_ok" =>
                term' = [raw |-> FALSE, alt |-> FALSE, hidden |-> FALSE]]_vars

\* what the command of event e does to game g, leaving the draws aside
Applied(e, g) ==
    IF e.code = " " /\ g.state = "Playing"
    THEN [g EXCEPT !.bird.velocity = JUMP_VELOCITY]
    ELSE g

\* C16: in every loop iteration the pending events are read oldest first,
\* each applied to the game as it is at that moment, and all of them before
\* the tick decision; the decision calls update at most once, and only
\* when at least 50 ms have passed since the previous tick; the game is
\* drawn exactly once in every iteration, with or without a tick.
C16_DrainThenTickThenDraw ==
    [][/\ Len(pending') < Len(pending) =>
             /\ pending' = Tail(pending)
             /\ iter'.reads >= iter.reads
             /\ iter'.reads > 0
             /\ ticks' = ticks
             /\ LET e == Head(pending) IN
                IF e.code = "q" THEN loc' = "cleanup" /\ game' = game
                ELSE IF e.code = "r" /\ game.state = "GameOver"
                THEN game'.state = "Playing" /\ game'.score = 0
                ELSE game' = Applied(e, game)
       /\ (loc = "poll" /\ loc' = "sleep") =>
             /\ pending = <<>>
             /\ iter.draws = 1
             /\ ticks' \in {ticks, ticks + 1}
             /\ ticks' = ticks + 1 =>
                   /\ elapsed >= 50
                   /\ elapsed' = 0
                   /\ iter'.updates = 1
             /\ ticks' = ticks => game' = game
       /\ ticks' # ticks => (loc = "poll" /\ iter.updates = 0)
       /\ iter'.draws # iter.draws =>
             \/ loc = "draw" /\ iter.draws = 0 /\ iter'.draws = 1
             \/ loc = "sleep" /\ iter.draws = 1 /\ iter'.draws = 0
       /\ loc = "sleep" => loc' \in {"sleep", "draw"}
       /\ loc = "draw" => (game' = game /\ ticks' = ticks)]_vars

\* C16 witness: an iteration that drew once, read two events, a jump among
\* them, and then made a tick that was due
C16_Witness ==
    /\ loc = "sleep"
    /\ iter = [draws |-> 1, reads |-> 2, updates |-> 1]
    /\ last.op = "update"
    /\ last.pre.bird.velocity = JUMP_VELOCITY
    /\ elapsed = 0

\* an iteration also ends without a tick, after a draw
C16_IterationWithoutTick ==
    /\ loc = "sleep"
    /\ iter = [draws |-> 1, reads |-> 1, updates |-> 0]
    /\ elapsed \in 1..49

\* the texts load_highscore is tried on: up to three characters
Texts ==
    LET Chars == {" ", "\n", "+", "-", "0", "1", "7", "x"}
    IN  UNION {[1..n -> Chars] : n \in 0..3}

\* the loader is total: it gives 0 without HOME, without a readable file
\* and for a text that is not a number, and gives back what to_string wrote
\* whatever white space surrounds it
LoadIsTotal ==
    loc = "raw" =>
       /\ \A t \in Texts, h \in BOOLEAN, r \in BOOLEAN :
             /\ load_highscore(h, t, r) \in 0..999
             /\ ~(h /\ r) => load_highscore(h, t, r) = 0
             /\ (\E i \in 1..Len(t) : t[i] \in {"x", "-"}) =>
                   load_highscore(h, t, r) = 0
             /\ (\A i \in 1..Len(t) : IsWhitespace(t[i])) =>
                   load_highscore(h, t, r) = 0
       /\ \A h \in BOOLEAN, r \in BOOLEAN : load_highscore(h, NoFile, r) = 0
       /\ \A n \in {0, 7, 10, 170, 4095} :
             load_highscore(TRUE, <<" ">> \o to_string(n) \o <<"\n">>, TRUE) = n

\* C17: loading the high score never fails the caller, so that
\* initialization (once the terminal size is known) always yields a Playing
\* game whose high_score is the loaded value: 0 without HOME, without a
\* file or when the text is not a number, else 0 (unreadable) or the number
\* stored.
C17_InitYieldsLoadedHighScore ==
    [][(loc = "size" /\ loc' # "exit_err") =>
          /\ game'.state = "Playing"
          /\ game'.high_score \in
                {0, IF parse_u32(trim(file)) = ParseErr THEN 0
                    ELSE parse_u32(trim(file))}
          /\ (~home \/ file = NoFile) => game'.high_score = 0]_vars

\* the pipes that overlap the bird's two columns
Overlapping ==
    {i \in DOMAIN game.pipes :
        BIRD_X + 2 > game.pipes[i].x /\ BIRD_X < game.pipes[i].x + PIPE_WIDTH}

\* C18: in every reachable state the pipes stand left to right in spawn
\* order, each exactly 40 columns right of the one before it, so x is
\* strictly increasing; at most one pipe overlaps the bird's two columns;
\* and the pipes a tick culls are the first ones of the collection.
C18_SpacedByForty ==
    game.state # "None" =>
       /\ \A i \in DOMAIN game.pipes :
             i > 1 => game.pipes[i].x = game.pipes[i - 1].x + 40
       /\ \A i, j \in DOMAIN game.pipes :
             i < j => game.pipes[i].x < game.pipes[j].x
       /\ Cardinality(Overlapping) <= 1
       /\ (Ticked /\ last.pre.state = "Playing") =>
             \A i, j \in DOMAIN last.pre.pipes :
                (i < j /\ Successor(j) = 0) => Successor(i) = 0

\* C18 witness: a tick culled the first pipe and kept the two behind it,
\* 40 columns apart
C18_Witness ==
    /\ Ticked
    /\ last.pre.state = "Playing"
    /\ Len(last.pre.pipes) >= 3
    /\ Successor(1) = 0
    /\ Successor(2) = 1
    /\ Successor(3) = 2
    /\ game.pipes[2].x = game.pipes[1].x + 40

\* C19: over any sequence of ticks, jumps and resets high_score never
\* decreases; in every GameOver state high_score >= score; is_new_record is
\* true only in GameOver and only when score = high_score, so it is false
\* in every Playing state.
C19_HighScoreMonotone ==
    [][/\ game'.high_score >= game.high_score
       /\ game'.state = "GameOver" => game'.high_score >= game'.score
       /\ game'.is_new_record =>
             /\ game'.state = "GameOver"
             /\ game'.score = game'.high_score
       /\ game'.state = "Playing" => ~game'.is_new_record]_vars

\* C19 witness: a game that beat the stored high score was restarted, and
\* the new game, with score 0, keeps the high score it reached
C19_Witness ==
    /\ last.op = "reset"
    /\ last.pre.is_new_record
    /\ last.pre.score = last.pre.high_score
    /\ game.high_score = last.pre.high_score
    /\ game.high_score > game.score
    /\ ~game.is_new_record

\* C20: from any reachable Playing state, if ticks keep occurring and no
\* jump is issued any more, the game eventually is over (unless the loop
\* is left first): the velocity grows by GRAVITY in every tick, so the bird
\* reaches the bottom row unless a pipe ends the run before.
C20_FallsWithoutJumps ==
    (game.state = "Playing" /\ ticks >= MaxPlayTicks)
        ~> (game.state = "GameOver" \/ loc \notin {"draw", "poll"})

\* C20 witness: after the last jump the bird fell for more than three
\* ticks and left the screen through the bottom
C20_Witness ==
    /\ Ticked
    /\ ticks >= MaxPlayTicks
    /\ last.pre.state = "Playing"
    /\ last.pre.bird.velocity > 3 * GRAVITY
    /\ game.state = "GameOver"
    /\ game.bird.y >= F32FromInt(game.height)

====
